---- MODULE Spec2Model ----
(***************************************************************************)
(* A model of the Nachos file system of code/filesys/filesys.cc: the free  *)
(* sector map, file headers, directories stored as files, the current      *)
(* directory of the running thread and the table of open files.            *)
(*                                                                         *)
(* The disk is a function from sector numbers to what was last written     *)
(* there.  A sector never loses its contents when it is freed: only the    *)
(* bit map says that it is free.  BitMap, FileHeader, Directory and        *)
(* OpenFile live in other files of the repository (bitmap.cc, filehdr.cc,  *)
(* directory.cc, openfile.cc); they are modelled from their description.   *)
(* When the code reads a sector as a structure other than the one last     *)
(* written there (a header read from a sector holding a directory table,   *)
(* say), the bytes it gets depend on record layouts that filesys.cc does   *)
(* not fix; the operation is then left undefined (def = FALSE) and the     *)
(* model follows the behaviour no further.                                 *)
(***************************************************************************)
EXTENDS Integers, Sequences, FiniteSets, TLC

\* ------------------------------------------------------------------ sizes
NumSectors == 8            \* sectors of the disk (scaled down)
SectorSize == 4            \* bytes of a sector (scaled down)
NumDirect == 2             \* data sectors a file header can list (scaled down)
NumDirEntries == 4         \* slots of a directory (scaled down)
MAX_OPEN_FILES == 2        \* slots of the open files table (scaled down)
MaxOps == 5                \* calls made after boot, on the name space
MaxIoOps == 6              \* calls made after boot, on file contents
MaxArgOps == 4             \* calls made after boot, on argument checking
MaxOpenOps == 6            \* calls made after boot, on the open files table
MaxDirOps == 4             \* calls in a run of SpecDir

FreeMapSector == 0
DirectorySector == 1
BitsInByte == 8
SizeofDirectoryEntry == 1  \* a directory entry takes one unit of file length
INVALID_FILE_HANDLE == -1

FreeMapFileSize == NumSectors \div BitsInByte
DirectoryFileSize == SizeofDirectoryEntry * NumDirEntries
MaxFileSize == NumDirect * SectorSize

Sectors == 0 .. (NumSectors - 1)
Handles == 0 .. (MAX_OPEN_FILES - 1)
Slots == 1 .. NumDirEntries

FILE_TYPE == "FILE"
DIR_TYPE == "DIR"

\* the arguments the operations are called with
Names == {".", "..", "a", "b"}
Sizes == {0, SectorSize + 1, MaxFileSize + 1}
HandleArgs == (-1) .. MAX_OPEN_FILES

Min(x, y) == IF x <= y THEN x ELSE y
divRoundUp(n, s) == (n + s - 1) \div s

\* ------------------------------------------------------------------ BitMap
\* A bit map is the set of the marked sectors.
RECURSIVE LowestIn(_, _)
LowestIn(S, i) == IF i \in S THEN i ELSE LowestIn(S, i + 1)

\* BitMap::Find: the first clear bit, which it marks; -1 when none is clear.
BitMapFind(map) ==
    IF Sectors \ map = {} THEN [sector |-> -1, map |-> map]
    ELSE LET s == LowestIn(Sectors \ map, 0)
         IN [sector |-> s, map |-> map \cup {s}]

BitMapNumClear(map) == Cardinality(Sectors \ map)

\* the first n clear sectors, in the order successive Find calls return them
RECURSIVE FindMany(_, _)
FindMany(map, n) ==
    IF n = 0 THEN [list |-> << >>, map |-> map]
    ELSE LET f == BitMapFind(map)
             r == FindMany(f.map, n - 1)
         IN [list |-> <<f.sector>> \o r.list, map |-> r.map]

\* -------------------------------------------------------------- FileHeader
NoHeader == [numBytes |-> 0, dataSectors |-> << >>]

\* FileHeader::Allocate: fails, leaving the map alone, when the size is beyond
\* what a header can list or the free sectors do not suffice.
FileHeaderAllocate(map, fileSize) ==
    LET n == divRoundUp(fileSize, SectorSize)
    IN IF fileSize > MaxFileSize \/ BitMapNumClear(map) < n
       THEN [ok |-> FALSE, map |-> map, hdr |-> NoHeader]
       ELSE LET r == FindMany(map, n)
            IN [ok |-> TRUE, map |-> r.map,
                hdr |-> [numBytes |-> fileSize, dataSectors |-> r.list]]

SeqRange(s) == {s[i] : i \in 1 .. Len(s)}

\* FileHeader::Deallocate: clears every recorded data sector.
FileHeaderDeallocate(map, hdr) == map \ SeqRange(hdr.dataSectors)

\* ------------------------------------------------------------ sector contents
BlankSector == [kind |-> "data", bytes |-> [i \in 1 .. SectorSize |-> 0]]
HdrSector(hdr) == [kind |-> "hdr", numBytes |-> hdr.numBytes, dataSectors |-> hdr.dataSectors]
MapSector(map) == [kind |-> "map", bits |-> map]
DirSector(table) == [kind |-> "dir", table |-> table]

IsHdr(d, s) == s \in Sectors /\ d[s].kind = "hdr"
\* FileHeader::FetchFrom(sector)
FileHeaderFetchFrom(d, s) == [numBytes |-> d[s].numBytes, dataSectors |-> d[s].dataSectors]
\* FileHeader::WriteBack(sector)
FileHeaderWriteBack(d, s, hdr) == [d EXCEPT ![s] = HdrSector(hdr)]

\* --------------------------------------------------------------- Directory
\* An unused slot; its other fields are never read (every lookup tests inUse
\* first), so a slot that Remove clears is kept as FreeEntry.
FreeEntry == [inUse |-> FALSE, name |-> "", sector |-> -1, type |-> FILE_TYPE]
\* a slot whose bytes were never written as a directory entry
JunkEntry == [inUse |-> FALSE, name |-> "?", sector |-> -1, type |-> "?"]
\* Directory::Directory: every slot unused
NewDirectory == [i \in Slots |-> FreeEntry]

\* Directory::FindIndex
DirectoryFindIndex(t, name) ==
    IF \E i \in Slots : t[i].inUse /\ t[i].name = name
    THEN CHOOSE i \in Slots : t[i].inUse /\ t[i].name = name /\
            \A j \in Slots : (t[j].inUse /\ t[j].name = name) => i <= j
    ELSE -1

\* Directory::Find
DirectoryFind(t, name) ==
    LET i == DirectoryFindIndex(t, name) IN IF i = -1 THEN -1 ELSE t[i].sector

\* Directory::GetEntryType
DirectoryGetEntryType(t, name) ==
    LET i == DirectoryFindIndex(t, name) IN IF i = -1 THEN "NONE" ELSE t[i].type

\* Directory::Add: fails when the name is present or no slot is free
DirectoryAdd(t, name, sector, type) ==
    IF DirectoryFindIndex(t, name) # -1 \/ \A i \in Slots : t[i].inUse
    THEN [ok |-> FALSE, table |-> t]
    ELSE LET i == CHOOSE k \in Slots : ~t[k].inUse /\ \A j \in Slots : ~t[j].inUse => k <= j
         IN [ok |-> TRUE,
             table |-> [t EXCEPT ![i] = [inUse |-> TRUE, name |-> name,
                                         sector |-> sector, type |-> type]]]

\* Directory::Remove
DirectoryRemove(t, name) ==
    LET i == DirectoryFindIndex(t, name)
    IN IF i = -1 THEN t ELSE [t EXCEPT ![i] = FreeEntry]

\* The number of directory slots a file of this header lets a directory read
\* or write: OpenFile::ReadAt and WriteAt stop at the file's length.
DirSlotsOf(hdr) == Min(hdr.numBytes, DirectoryFileSize) \div SizeofDirectoryEntry

\* Directory::FetchFrom(file) is defined when the slots it reads hold entries
CanFetchDirectory(d, hdr) ==
    DirSlotsOf(hdr) = 0 \/
    (/\ Len(hdr.dataSectors) >= 1
     /\ hdr.dataSectors[1] \in Sectors
     /\ d[hdr.dataSectors[1]].kind = "dir"
     /\ \A i \in 1 .. DirSlotsOf(hdr) : d[hdr.dataSectors[1]].table[i] # JunkEntry)

\* Directory::FetchFrom(file): the slots beyond the file's length stay as the
\* constructor left them
DirectoryFetchFrom(d, hdr) ==
    IF DirSlotsOf(hdr) = 0 THEN NewDirectory
    ELSE [i \in Slots |-> IF i <= DirSlotsOf(hdr) THEN d[hdr.dataSectors[1]].table[i]
                          ELSE FreeEntry]

\* Directory::WriteBack(file): writes the slots that fit the file's length
DirectoryWriteBack(d, hdr, t) ==
    IF DirSlotsOf(hdr) = 0 THEN d
    ELSE LET s == hdr.dataSectors[1]
             old == IF d[s].kind = "dir" THEN d[s].table ELSE [i \in Slots |-> JunkEntry]
         IN [d EXCEPT ![s] = DirSector([i \in Slots |->
                                IF i <= DirSlotsOf(hdr) THEN t[i] ELSE old[i]])]

\* ---------------------------------------------------------------- OpenFile
\* A byte of a sector last written as a structure reads as Junk.
Junk == -1
ByteView(c) == IF c.kind = "data" THEN c.bytes ELSE [i \in 1 .. SectorSize |-> Junk]
\* FileHeader::ByteToSector
ByteToSector(hdr, offset) == hdr.dataSectors[(offset \div SectorSize) + 1]
ByteAt(d, hdr, offset) == ByteView(d[ByteToSector(hdr, offset)])[(offset % SectorSize) + 1]

\* the bytes a transfer of numBytes at position moves: none at or beyond the
\* end of the file, and no more than remain before it
Transferred(hdr, numBytes, position) ==
    IF numBytes <= 0 \/ position >= hdr.numBytes THEN 0
    ELSE Min(numBytes, hdr.numBytes - position)

\* OpenFile::ReadAt
OpenFileReadAt(d, hdr, numBytes, position) ==
    LET n == Transferred(hdr, numBytes, position)
    IN [n |-> n, bytes |-> [i \in 1 .. n |-> ByteAt(d, hdr, position + i - 1)]]

\* OpenFile::WriteAt: the sectors it touches are read, overlaid and written
OpenFileWriteAt(d, hdr, from, numBytes, position) ==
    LET n == Transferred(hdr, numBytes, position)
        Hit(k) == \E j \in 1 .. SectorSize :
                     LET off == (k - 1) * SectorSize + j - 1
                     IN position <= off /\ off < position + n
        Overlay(k) == [j \in 1 .. SectorSize |->
                        LET off == (k - 1) * SectorSize + j - 1
                        IN IF position <= off /\ off < position + n
                           THEN from[off - position + 1]
                           ELSE ByteView(d[hdr.dataSectors[k]])[j]]
        touched == {k \in 1 .. Len(hdr.dataSectors) : Hit(k)}
    IN [n |-> n,
        disk |-> [s \in Sectors |->
                    IF \E k \in touched : hdr.dataSectors[k] = s
                    THEN [kind |-> "data",
                          bytes |-> Overlay(CHOOSE k \in touched : hdr.dataSectors[k] = s)]
                    ELSE d[s]]]

\* ------------------------------------------------------------------- state
VARIABLES
    disk,             \* sector -> what was last written there
    cwd,              \* currentThread's current directory sector
    openFilesTable,   \* handle -> entry of the open files table
    into,             \* the caller's buffer after the last Read or ReadAt
    last,             \* the last call and what it returned
    nops,             \* the number of calls made so far
    task,             \* thread -> the Create or CreateDirectory it is in
    overlapped        \* whether two such calls were ever in progress at once

vars == <<disk, cwd, openFilesTable, into, last, nops, task, overlapped>>

\* OpenFile::OpenFile(sector): reads the header once and keeps it
NullFile == [hdr |-> NoHeader, seekPosition |-> -1]
OpenFileAt(d, s) == [hdr |-> FileHeaderFetchFrom(d, s), seekPosition |-> 0]

\* FileSystem::InitializeOpenFilesTable
ClosedEntry == [inUse |-> FALSE, openFile |-> NullFile, sector |-> -1,
                filename |-> "", currentPosition |-> 0]
InitializeOpenFilesTable == [h \in Handles |-> ClosedEntry]

\* FileSystem::FileSystem(format = TRUE), step by step
BootMap == {FreeMapSector, DirectorySector}
BootMapAlloc == FileHeaderAllocate(BootMap, FreeMapFileSize)
BootDirAlloc == FileHeaderAllocate(BootMapAlloc.map, DirectoryFileSize)
\* freeMapFile, opened at boot and kept open
freeMapFile == [hdr |-> BootMapAlloc.hdr, seekPosition |-> 0]
FreeMapDataSector == freeMapFile.hdr.dataSectors[1]
\* a mutant: the bootstrap forgets the root's ".." entry
BootDirectory_OnlyDot == DirectoryAdd(NewDirectory, ".", DirectorySector, DIR_TYPE).table

BootDirectory ==
    DirectoryAdd(DirectoryAdd(NewDirectory, ".", DirectorySector, DIR_TYPE).table,
                 "..", DirectorySector, DIR_TYPE).table

\* BitMap::FetchFrom(freeMapFile) and BitMap::WriteBack(freeMapFile)
CanFetchBitMap(d) == d[FreeMapDataSector].kind = "map"
BitMapFetchFrom(d) == d[FreeMapDataSector].bits
BitMapWriteBack(d, map) == [d EXCEPT ![FreeMapDataSector] = MapSector(map)]

FormattedDisk ==
    LET d0 == [s \in Sectors |-> BlankSector]
        d1 == FileHeaderWriteBack(d0, FreeMapSector, BootMapAlloc.hdr)
        d2 == FileHeaderWriteBack(d1, DirectorySector, BootDirAlloc.hdr)
        d3 == DirectoryWriteBack(d2, BootDirAlloc.hdr, NewDirectory)
        d4 == BitMapWriteBack(d3, BootDirAlloc.map)
    IN DirectoryWriteBack(d4, BootDirAlloc.hdr, BootDirectory)

NoCall == [op |-> "boot", ret |-> 0, why |-> ""]

\* the threads that may call Create and CreateDirectory at the same time, and
\* what a thread holds in memory in the course of such a call
Threads == {1, 2}
IdleTask ==
    [pc |-> "idle", op |-> "", name |-> "", size |-> 0,
     dirHdr |-> NoHeader, directory |-> NewDirectory, freeMap |-> {},
     sector |-> -1, hdr |-> NoHeader, newHdr |-> NoHeader, ret |-> FALSE]

Init ==
    /\ disk = FormattedDisk
    /\ cwd = DirectorySector
    /\ openFilesTable = InitializeOpenFilesTable
    /\ into = << >>
    /\ last = NoCall
    /\ nops = 0
    /\ task = [t \in Threads |-> IdleTask]
    /\ overlapped = FALSE

\* -------------------------------------------------------------- operations
\* Each operation is a function of the state it reads: def says whether the
\* model defines it there, ret is what the call returns, disk (cwd, table)
\* the state it leaves.

\* the current directory can be opened and loaded
CanLoadCurrent(d, cur) == IsHdr(d, cur) /\ CanFetchDirectory(d, FileHeaderFetchFrom(d, cur))

\* a mutant: a failing Create flushes what it had staged
CreateFails_Flushes(d, hdr, table, map, why) ==
    [def |-> TRUE, ret |-> FALSE, why |-> why,
     disk |-> BitMapWriteBack(DirectoryWriteBack(d, hdr, table), map)]

\* the failure exits of Create and CreateDirectory: the staged directory and
\* free map are deleted, nothing is written
CreateFails(d, hdr, table, map, why) ==
    [def |-> TRUE, ret |-> FALSE, why |-> why, disk |-> d]

\* FileSystem::Create
CreateOp(d, cur, name, initialSize) ==
    IF name = "" \/ initialSize < 0 \/ cur < 0 \/ cur >= NumSectors
    THEN [def |-> TRUE, ret |-> FALSE, why |-> "arg", disk |-> d]
    ELSE IF ~(CanLoadCurrent(d, cur) /\ CanFetchBitMap(d))
    THEN [def |-> FALSE, ret |-> FALSE, why |-> "", disk |-> d]
    ELSE
    LET currentDirFile == OpenFileAt(d, cur)
        directory == DirectoryFetchFrom(d, currentDirFile.hdr)
        freeMap == BitMapFetchFrom(d)
        found == BitMapFind(freeMap)
        added == DirectoryAdd(directory, name, found.sector, FILE_TYPE)
        alloc == FileHeaderAllocate(found.map, initialSize)
    IN IF DirectoryFind(directory, name) # -1
       THEN CreateFails(d, currentDirFile.hdr, directory, freeMap, "exists")
       ELSE IF found.sector = -1
       THEN CreateFails(d, currentDirFile.hdr, directory, found.map, "nosector")
       ELSE IF ~added.ok
       THEN CreateFails(d, currentDirFile.hdr, added.table, found.map, "dirfull")
       ELSE IF ~alloc.ok
       THEN CreateFails(d, currentDirFile.hdr, added.table, alloc.map, "nospace")
       ELSE LET d1 == FileHeaderWriteBack(d, found.sector, alloc.hdr)
                d2 == DirectoryWriteBack(d1, currentDirFile.hdr, added.table)
            IN [def |-> TRUE, ret |-> TRUE, why |-> "ok", disk |-> BitMapWriteBack(d2, alloc.map)]

\* FileSystem::CreateDirectory
CreateDirectoryOp(d, cur, name) ==
    IF cur < 0 THEN [def |-> TRUE, ret |-> FALSE, why |-> "arg", disk |-> d]
    ELSE IF ~(CanLoadCurrent(d, cur) /\ CanFetchBitMap(d))
    THEN [def |-> FALSE, ret |-> FALSE, why |-> "", disk |-> d]
    ELSE
    LET parentDirectoryFile == OpenFileAt(d, cur)
        parentDirectory == DirectoryFetchFrom(d, parentDirectoryFile.hdr)
        freeMap == BitMapFetchFrom(d)
        found == BitMapFind(freeMap)
        added == DirectoryAdd(parentDirectory, name, found.sector, DIR_TYPE)
        alloc == FileHeaderAllocate(found.map, DirectoryFileSize)
    IN IF DirectoryFind(parentDirectory, name) # -1
       THEN CreateFails(d, parentDirectoryFile.hdr, parentDirectory, freeMap, "exists")
       ELSE IF found.sector = -1
       THEN CreateFails(d, parentDirectoryFile.hdr, parentDirectory, found.map, "nosector")
       ELSE IF ~added.ok
       THEN CreateFails(d, parentDirectoryFile.hdr, added.table, found.map, "dirfull")
       ELSE IF ~alloc.ok
       THEN CreateFails(d, parentDirectoryFile.hdr, added.table, alloc.map, "nospace")
       ELSE LET d1 == FileHeaderWriteBack(d, found.sector, alloc.hdr)
                n1 == DirectoryAdd(NewDirectory, ".", found.sector, DIR_TYPE).table
                newDirectory == DirectoryAdd(n1, "..", cur, DIR_TYPE).table
                newDirFile == OpenFileAt(d1, found.sector)
                d2 == DirectoryWriteBack(d1, newDirFile.hdr, newDirectory)
                d3 == DirectoryWriteBack(d2, parentDirectoryFile.hdr, added.table)
            IN [def |-> TRUE, ret |-> TRUE, why |-> "ok", disk |-> BitMapWriteBack(d3, alloc.map)]

\* a mutant: Remove flushes the free map and forgets the directory
RemoveFlush_MapOnly(d, hdr, table, map) == BitMapWriteBack(d, map)

\* the end of Remove: the free map, then the directory, go back to disk
RemoveFlush(d, hdr, table, map) ==
    DirectoryWriteBack(BitMapWriteBack(d, map), hdr, table)

\* a mutant: Remove refuses an entry of type DIR
RemoveOp_FilesOnly(d, cur, name) ==
    IF name = "" \/ cur < 0 \/ cur >= NumSectors
    THEN [def |-> TRUE, ret |-> FALSE, disk |-> d]
    ELSE IF ~CanLoadCurrent(d, cur)
    THEN [def |-> FALSE, ret |-> FALSE, disk |-> d]
    ELSE
    LET currentDirFile == OpenFileAt(d, cur)
        directory == DirectoryFetchFrom(d, currentDirFile.hdr)
        sector == DirectoryFind(directory, name)
    IN IF sector = -1 \/ DirectoryGetEntryType(directory, name) = DIR_TYPE
       THEN [def |-> TRUE, ret |-> FALSE, disk |-> d]
       ELSE IF ~(IsHdr(d, sector) /\ CanFetchBitMap(d))
       THEN [def |-> FALSE, ret |-> FALSE, disk |-> d]
       ELSE LET fileHdr == FileHeaderFetchFrom(d, sector)
                freeMap == BitMapFetchFrom(d)
                m1 == FileHeaderDeallocate(freeMap, fileHdr)
                m2 == m1 \ {sector}
            IN [def |-> TRUE, ret |-> TRUE,
                disk |-> RemoveFlush(d, currentDirFile.hdr,
                                     DirectoryRemove(directory, name), m2)]

\* FileSystem::Remove
RemoveOp(d, cur, name) ==
    IF name = "" \/ cur < 0 \/ cur >= NumSectors
    THEN [def |-> TRUE, ret |-> FALSE, disk |-> d]
    ELSE IF ~CanLoadCurrent(d, cur)
    THEN [def |-> FALSE, ret |-> FALSE, disk |-> d]
    ELSE
    LET currentDirFile == OpenFileAt(d, cur)
        directory == DirectoryFetchFrom(d, currentDirFile.hdr)
        sector == DirectoryFind(directory, name)
    IN IF sector = -1 THEN [def |-> TRUE, ret |-> FALSE, disk |-> d]
       ELSE IF ~(IsHdr(d, sector) /\ CanFetchBitMap(d))
       THEN [def |-> FALSE, ret |-> FALSE, disk |-> d]
       ELSE LET fileHdr == FileHeaderFetchFrom(d, sector)
                freeMap == BitMapFetchFrom(d)
                m1 == FileHeaderDeallocate(freeMap, fileHdr)
                m2 == m1 \ {sector}
            IN [def |-> TRUE, ret |-> TRUE,
                disk |-> RemoveFlush(d, currentDirFile.hdr,
                                     DirectoryRemove(directory, name), m2)]

\* FileSystem::ChangeDirectory
ChangeDirectoryOp(d, cur, name) ==
    IF name = "" \/ cur < 0 \/ cur >= NumSectors
    THEN [def |-> TRUE, ret |-> FALSE, cwd |-> cur]
    ELSE IF ~CanLoadCurrent(d, cur)
    THEN [def |-> FALSE, ret |-> FALSE, cwd |-> cur]
    ELSE
    LET currentDirectory == DirectoryFetchFrom(d, OpenFileAt(d, cur).hdr)
        sector == DirectoryFind(currentDirectory, name)
    IN IF sector = -1 THEN [def |-> TRUE, ret |-> FALSE, cwd |-> cur]
       ELSE IF DirectoryGetEntryType(currentDirectory, name) # DIR_TYPE
       THEN [def |-> TRUE, ret |-> FALSE, cwd |-> cur]
       ELSE IF sector < 0 \/ sector >= NumSectors
       THEN [def |-> TRUE, ret |-> FALSE, cwd |-> cur]
       ELSE [def |-> TRUE, ret |-> TRUE, cwd |-> sector]

\* a mutant: the scan for a free slot runs from the top of the table
FindFreeSlot_Highest(tbl) ==
    IF \A h \in Handles : tbl[h].inUse THEN INVALID_FILE_HANDLE
    ELSE CHOOSE h \in Handles : ~tbl[h].inUse /\ \A g \in Handles : ~tbl[g].inUse => h >= g

\* FileSystem::FindFreeSlot
FindFreeSlot(tbl) ==
    IF \A h \in Handles : tbl[h].inUse THEN INVALID_FILE_HANDLE
    ELSE CHOOSE h \in Handles : ~tbl[h].inUse /\ \A g \in Handles : ~tbl[g].inUse => h <= g

\* FileSystem::IsValidHandle
IsValidHandle(tbl, handle) ==
    /\ handle >= 0
    /\ handle < MAX_OPEN_FILES
    /\ tbl[handle].inUse
    /\ tbl[handle].openFile # NullFile

\* a mutant: Open never finds the sector in the table
AlreadyOpen_Never(tbl, sector) == INVALID_FILE_HANDLE

\* the loop of FileSystem::Open that looks for a slot already holding the sector
AlreadyOpen(tbl, sector) ==
    IF \E h \in Handles : tbl[h].inUse /\ tbl[h].sector = sector
    THEN CHOOSE h \in Handles : tbl[h].inUse /\ tbl[h].sector = sector /\
            \A g \in Handles : (tbl[g].inUse /\ tbl[g].sector = sector) => h <= g
    ELSE INVALID_FILE_HANDLE

\* a mutant: the slot is taken before the name is looked up and is not
\* given back when the name is missing
OpenNotFound_KeepsSlot(tbl) ==
    LET h == IF \A g \in DOMAIN tbl : tbl[g].inUse THEN -1
             ELSE CHOOSE g \in DOMAIN tbl : ~tbl[g].inUse
    IN [def |-> TRUE, ret |-> -1, why |-> "missing",
        table |-> IF h = -1 THEN tbl ELSE [tbl EXCEPT ![h].inUse = TRUE]]

\* the exit of Open on a name the directory does not hold
OpenNotFound(tbl) ==
    [def |-> TRUE, ret |-> INVALID_FILE_HANDLE, why |-> "missing", table |-> tbl]

\* FileSystem::Open
OpenOp(d, cur, tbl, name) ==
    IF name = "" THEN [def |-> TRUE, ret |-> INVALID_FILE_HANDLE, why |-> "arg", table |-> tbl]
    ELSE IF ~CanLoadCurrent(d, cur)
    THEN [def |-> FALSE, ret |-> INVALID_FILE_HANDLE, why |-> "", table |-> tbl]
    ELSE
    LET directory == DirectoryFetchFrom(d, OpenFileAt(d, cur).hdr)
        sector == DirectoryFind(directory, name)
        handle == FindFreeSlot(tbl)
    IN IF sector = -1 THEN OpenNotFound(tbl)
       ELSE IF AlreadyOpen(tbl, sector) # INVALID_FILE_HANDLE
       THEN [def |-> TRUE, ret |-> AlreadyOpen(tbl, sector), why |-> "again", table |-> tbl]
       ELSE IF handle = INVALID_FILE_HANDLE
       THEN [def |-> TRUE, ret |-> INVALID_FILE_HANDLE, why |-> "full", table |-> tbl]
       ELSE IF ~IsHdr(d, sector)
       THEN [def |-> FALSE, ret |-> INVALID_FILE_HANDLE, why |-> "", table |-> tbl]
       ELSE [def |-> TRUE, ret |-> handle, why |-> "ok",
             table |-> [tbl EXCEPT ![handle] =
                          [inUse |-> TRUE, openFile |-> OpenFileAt(d, sector),
                           sector |-> sector, filename |-> name, currentPosition |-> 0]]]

\* a mutant: Close checks nothing and takes the handle modulo the table size
CloseOp_Wraps(tbl, file) == [tbl EXCEPT ![file % MAX_OPEN_FILES] = ClosedEntry]

\* FileSystem::Close
CloseOp(tbl, file) ==
    IF ~IsValidHandle(tbl, file) THEN tbl
    ELSE [tbl EXCEPT ![file] = ClosedEntry]

\* FileSystem::CloseAll: Close on every slot in use, from slot i upwards
RECURSIVE CloseAllFrom(_, _)
CloseAllFrom(tbl, i) ==
    IF i >= MAX_OPEN_FILES THEN tbl
    ELSE CloseAllFrom(IF tbl[i].inUse THEN CloseOp(tbl, i) ELSE tbl, i + 1)
CloseAllOp(tbl) == CloseAllFrom(tbl, 0)

\* a buffer argument: a sequence of bytes, or the null pointer
NullBuffer == << -2 >>

\* FileSystem::Read
ReadOp(d, tbl, file, buffer, numBytes) ==
    IF ~IsValidHandle(tbl, file) \/ buffer = NullBuffer
    THEN [ret |-> 0, into |-> buffer, table |-> tbl]
    ELSE LET of == tbl[file].openFile
             r == OpenFileReadAt(d, of.hdr, numBytes, of.seekPosition)
         IN [ret |-> r.n, into |-> r.bytes,
             table |-> [tbl EXCEPT
                 ![file].openFile.seekPosition = of.seekPosition + r.n,
                 ![file].currentPosition = tbl[file].currentPosition + r.n]]

\* FileSystem::Write
WriteOp(d, tbl, file, from, numBytes) ==
    IF ~IsValidHandle(tbl, file) \/ from = NullBuffer
    THEN [ret |-> 0, disk |-> d, table |-> tbl]
    ELSE LET of == tbl[file].openFile
             w == OpenFileWriteAt(d, of.hdr, from, numBytes, of.seekPosition)
         IN [ret |-> w.n, disk |-> w.disk,
             table |-> [tbl EXCEPT
                 ![file].openFile.seekPosition = of.seekPosition + w.n,
                 ![file].currentPosition = tbl[file].currentPosition + w.n]]

\* FileSystem::ReadAt
ReadAtOp(d, tbl, file, buffer, numBytes, position) ==
    IF ~IsValidHandle(tbl, file) \/ buffer = NullBuffer
    THEN [ret |-> 0, into |-> buffer, table |-> tbl]
    ELSE LET r == OpenFileReadAt(d, tbl[file].openFile.hdr, numBytes, position)
         IN [ret |-> r.n, into |-> r.bytes,
             table |-> [tbl EXCEPT
                 ![file].currentPosition = tbl[file].currentPosition + r.n]]

\* FileSystem::WriteAt
WriteAtOp(d, tbl, file, from, numBytes, position) ==
    IF ~IsValidHandle(tbl, file) \/ from = NullBuffer
    THEN [ret |-> 0, disk |-> d, table |-> tbl]
    ELSE LET w == OpenFileWriteAt(d, tbl[file].openFile.hdr, from, numBytes, position)
         IN [ret |-> w.n, disk |-> w.disk, table |-> tbl]

\* ------------------------------------------------------------------ actions
\* how a call on a handle went: rejected for the handle, rejected for the
\* buffer, or carried out
HandleCheck(tbl, file, buffer) ==
    IF ~IsValidHandle(tbl, file) THEN "invalid"
    ELSE IF buffer = NullBuffer THEN "null"
    ELSE "ok"

\* one more call, while the bound allows it
Tick(bound) == nops < bound /\ nops' = nops + 1 /\ UNCHANGED <<task, overlapped>>

Create(name, initialSize) ==
    LET r == CreateOp(disk, cwd, name, initialSize)
    IN /\ r.def
       /\ disk' = r.disk
       /\ last' = [op |-> "Create", ret |-> r.ret, why |-> r.why]
       /\ UNCHANGED <<cwd, openFilesTable, into>>

CreateDirectory(name) ==
    LET r == CreateDirectoryOp(disk, cwd, name)
    IN /\ r.def
       /\ disk' = r.disk
       /\ last' = [op |-> "CreateDirectory", ret |-> r.ret, why |-> r.why]
       /\ UNCHANGED <<cwd, openFilesTable, into>>

Remove(name) ==
    LET r == RemoveOp(disk, cwd, name)
    IN /\ r.def
       /\ disk' = r.disk
       /\ last' = [op |-> "Remove", ret |-> r.ret, why |-> ""]
       /\ UNCHANGED <<cwd, openFilesTable, into>>

ChangeDirectory(name) ==
    LET r == ChangeDirectoryOp(disk, cwd, name)
    IN /\ r.def
       /\ cwd' = r.cwd
       /\ last' = [op |-> "ChangeDirectory", ret |-> r.ret, why |-> ""]
       /\ UNCHANGED <<disk, openFilesTable, into>>

Open(name) ==
    LET r == OpenOp(disk, cwd, openFilesTable, name)
    IN /\ r.def
       /\ openFilesTable' = r.table
       /\ last' = [op |-> "Open", ret |-> r.ret, why |-> r.why]
       /\ UNCHANGED <<disk, cwd, into>>

Close(file) ==
    /\ openFilesTable' = CloseOp(openFilesTable, file)
    /\ last' = [op |-> "Close", ret |-> 0, why |-> HandleCheck(openFilesTable, file, << >>)]
    /\ UNCHANGED <<disk, cwd, into>>

CloseAll ==
    /\ openFilesTable' = CloseAllOp(openFilesTable)
    /\ last' = [op |-> "CloseAll", ret |-> 0, why |-> ""]
    /\ UNCHANGED <<disk, cwd, into>>

Read(file, buffer, numBytes) ==
    LET r == ReadOp(disk, openFilesTable, file, buffer, numBytes)
    IN /\ openFilesTable' = r.table
       /\ into' = r.into
       /\ last' = [op |-> "Read", ret |-> r.ret,
                   why |-> HandleCheck(openFilesTable, file, buffer)]
       /\ UNCHANGED <<disk, cwd>>

Write(file, from, numBytes) ==
    LET r == WriteOp(disk, openFilesTable, file, from, numBytes)
    IN /\ openFilesTable' = r.table
       /\ disk' = r.disk
       /\ last' = [op |-> "Write", ret |-> r.ret,
                   why |-> HandleCheck(openFilesTable, file, from)]
       /\ UNCHANGED <<cwd, into>>

ReadAt(file, buffer, numBytes, position) ==
    LET r == ReadAtOp(disk, openFilesTable, file, buffer, numBytes, position)
    IN /\ openFilesTable' = r.table
       /\ into' = r.into
       /\ last' = [op |-> "ReadAt", ret |-> r.ret,
                   why |-> HandleCheck(openFilesTable, file, buffer)]
       /\ UNCHANGED <<disk, cwd>>

WriteAt(file, from, numBytes, position) ==
    LET r == WriteAtOp(disk, openFilesTable, file, from, numBytes, position)
    IN /\ openFilesTable' = r.table
       /\ disk' = r.disk
       /\ last' = [op |-> "WriteAt", ret |-> r.ret,
                   why |-> HandleCheck(openFilesTable, file, from)]
       /\ UNCHANGED <<cwd, into>>

\* The name space: every call on names and handles, with any of the names.
Next ==
    \/ \E name \in Names, initialSize \in Sizes : Tick(MaxOps) /\ Create(name, initialSize)
    \/ \E name \in Names : Tick(MaxOps) /\ CreateDirectory(name)
    \/ \E name \in Names : Tick(MaxOps) /\ Remove(name)
    \/ \E name \in Names : Tick(MaxOps) /\ ChangeDirectory(name)
    \/ \E name \in Names : Tick(MaxOps) /\ Open(name)
    \/ \E file \in HandleArgs : Tick(MaxOps) /\ Close(file)

Spec == Init /\ [][Next]_vars

\* File contents: files of one size in one directory, read and written
\* through the open files table.
IoNames == {"a", "b"}
Buffer(v, n) == [i \in 1 .. n |-> v]
ReadBuffers == {NullBuffer, << >>}
WriteBuffers == {NullBuffer, Buffer(1, 2), Buffer(2, SectorSize + 1)}
Positions == {0, SectorSize}

NextIO ==
    \/ \E name \in IoNames : Tick(MaxIoOps) /\ Create(name, SectorSize + 1)
    \/ \E name \in IoNames : Tick(MaxIoOps) /\ Remove(name)
    \/ \E name \in IoNames : Tick(MaxIoOps) /\ Open(name)
    \/ \E file \in HandleArgs : Tick(MaxIoOps) /\ Close(file)
    \/ \E file \in HandleArgs, buffer \in ReadBuffers :
          Tick(MaxIoOps) /\ Read(file, buffer, SectorSize + 1)
    \/ \E file \in HandleArgs, from \in WriteBuffers :
          Tick(MaxIoOps) /\ Write(file, from, Len(from))
    \/ \E file \in HandleArgs, buffer \in ReadBuffers, position \in Positions :
          Tick(MaxIoOps) /\ ReadAt(file, buffer, 2, position)
    \/ \E file \in HandleArgs, from \in WriteBuffers, position \in Positions :
          Tick(MaxIoOps) /\ WriteAt(file, from, Len(from), position)

SpecIO == Init /\ [][NextIO]_vars

\* Argument checking: calls with the empty name and with a negative size,
\* next to calls that are well formed.
ArgNames == {"", "a"}
ArgSizes == {-1, 0}

NextArg ==
    \/ \E name \in ArgNames, initialSize \in ArgSizes :
          Tick(MaxArgOps) /\ Create(name, initialSize)
    \/ \E name \in ArgNames : Tick(MaxArgOps) /\ CreateDirectory(name)
    \/ \E name \in ArgNames : Tick(MaxArgOps) /\ Remove(name)
    \/ \E name \in ArgNames : Tick(MaxArgOps) /\ ChangeDirectory(name)
    \/ \E name \in ArgNames : Tick(MaxArgOps) /\ Open(name)

SpecArg == Init /\ [][NextArg]_vars

\* The open files table: enough objects with sectors of their own to fill it
\* (directories are opened like files), and no Remove.
OpenNames == {".", "a", "b"}

NextOpen ==
    \/ \E name \in OpenNames : Tick(MaxOpenOps) /\ Create(name, 0)
    \/ \E name \in OpenNames : Tick(MaxOpenOps) /\ CreateDirectory(name)
    \/ \E name \in OpenNames : Tick(MaxOpenOps) /\ ChangeDirectory(name)
    \/ \E name \in OpenNames : Tick(MaxOpenOps) /\ Open(name)
    \/ \E file \in HandleArgs : Tick(MaxOpenOps) /\ Close(file)

SpecOpen == Init /\ [][NextOpen]_vars

\* Directories behind handles: the calls on handles next to the calls that
\* make and remove names, with the name of a directory among the names.
DirNames == {".", "a"}

NextDir ==
    \/ \E name \in DirNames : Tick(MaxDirOps) /\ Create(name, 0)
    \/ \E name \in DirNames : Tick(MaxDirOps) /\ CreateDirectory(name)
    \/ \E name \in DirNames : Tick(MaxDirOps) /\ Remove(name)
    \/ \E name \in DirNames : Tick(MaxDirOps) /\ Open(name)
    \/ \E file \in HandleArgs : Tick(MaxDirOps) /\ Close(file)
    \/ Tick(MaxDirOps) /\ CloseAll
    \/ \E file \in HandleArgs, buffer \in ReadBuffers :
          Tick(MaxDirOps) /\ Read(file, buffer, SectorSize + 1)
    \/ \E file \in HandleArgs, from \in WriteBuffers :
          Tick(MaxDirOps) /\ Write(file, from, Len(from))
    \/ \E file \in HandleArgs, buffer \in ReadBuffers, position \in Positions :
          Tick(MaxDirOps) /\ ReadAt(file, buffer, 2, position)
    \/ \E file \in HandleArgs, from \in WriteBuffers, position \in Positions :
          Tick(MaxDirOps) /\ WriteAt(file, from, Len(from), position)

SpecDir == Init /\ [][NextDir]_vars

\* Two threads in Create and CreateDirectory at once. A thread gives up the
\* processor at each device read and write, so a call is a sequence of steps,
\* one per device access, with what the code computes in memory in between
\* attached to the access before it. No lock is taken anywhere.
RaceNames == {"a", "b"}
RaceSizes == {0, SectorSize + 1}

Busy(t) == task[t].pc \notin {"idle", "done"}
Interleave(t) == overlapped' = (overlapped \/ \E u \in Threads \ {t} : Busy(u))
RaceFrame == UNCHANGED <<cwd, openFilesTable, into, nops>>

\* the return of the call of thread t
Finish(t, ret, why) ==
    /\ task' = [task EXCEPT ![t].pc = "done", ![t].ret = ret]
    /\ last' = [op |-> task[t].op, ret |-> ret, why |-> why]

\* the call is made: the arguments are checked and the current directory's
\* file is opened, which reads its header
Begin(t, op, name, initialSize) ==
    /\ task[t].pc = "idle"
    /\ IsHdr(disk, cwd)
    /\ task' = [task EXCEPT ![t] =
                  [IdleTask EXCEPT !.pc = "fetchDir", !.op = op, !.name = name,
                                   !.size = initialSize,
                                   !.dirHdr = FileHeaderFetchFrom(disk, cwd)]]
    /\ Interleave(t) /\ RaceFrame /\ UNCHANGED <<disk, last>>

\* directory->FetchFrom, then Find on the copy in memory
FetchDir(t) ==
    /\ task[t].pc = "fetchDir"
    /\ CanFetchDirectory(disk, task[t].dirHdr)
    /\ LET directory == DirectoryFetchFrom(disk, task[t].dirHdr)
       IN IF DirectoryFind(directory, task[t].name) # -1
          THEN Finish(t, FALSE, "exists")
          ELSE /\ task' = [task EXCEPT ![t].pc = "fetchMap", ![t].directory = directory]
               /\ UNCHANGED last
    /\ Interleave(t) /\ RaceFrame /\ UNCHANGED disk

\* freeMap->FetchFrom, then Find, Add and Allocate on the copies in memory
FetchMap(t) ==
    /\ task[t].pc = "fetchMap"
    /\ CanFetchBitMap(disk)
    /\ LET found == BitMapFind(BitMapFetchFrom(disk))
           type == IF task[t].op = "Create" THEN FILE_TYPE ELSE DIR_TYPE
           added == DirectoryAdd(task[t].directory, task[t].name, found.sector, type)
           alloc == FileHeaderAllocate(found.map, task[t].size)
       IN IF found.sector = -1 THEN Finish(t, FALSE, "nosector")
          ELSE IF ~added.ok THEN Finish(t, FALSE, "dirfull")
          ELSE IF ~alloc.ok THEN Finish(t, FALSE, "nospace")
          ELSE /\ task' = [task EXCEPT ![t].pc = "writeHdr",
                                       ![t].directory = added.table,
                                       ![t].freeMap = alloc.map,
                                       ![t].sector = found.sector,
                                       ![t].hdr = alloc.hdr]
               /\ UNCHANGED last
    /\ Interleave(t) /\ RaceFrame /\ UNCHANGED disk

\* hdr->WriteBack(sector)
WriteHdr(t) ==
    /\ task[t].pc = "writeHdr"
    /\ disk' = FileHeaderWriteBack(disk, task[t].sector, task[t].hdr)
    /\ task' = [task EXCEPT ![t].pc = IF task[t].op = "Create" THEN "writeDir" ELSE "openNew"]
    /\ Interleave(t) /\ RaceFrame /\ UNCHANGED last

\* CreateDirectory: new OpenFile(sector) reads the header back from the disk
OpenNew(t) ==
    /\ task[t].pc = "openNew"
    /\ IsHdr(disk, task[t].sector)
    /\ task' = [task EXCEPT ![t].pc = "writeNew",
                            ![t].newHdr = FileHeaderFetchFrom(disk, task[t].sector)]
    /\ Interleave(t) /\ RaceFrame /\ UNCHANGED <<disk, last>>

\* CreateDirectory: newDirectory->WriteBack(newDirFile)
WriteNew(t) ==
    /\ task[t].pc = "writeNew"
    /\ LET n1 == DirectoryAdd(NewDirectory, ".", task[t].sector, DIR_TYPE).table
           newDirectory == DirectoryAdd(n1, "..", cwd, DIR_TYPE).table
       IN disk' = DirectoryWriteBack(disk, task[t].newHdr, newDirectory)
    /\ task' = [task EXCEPT ![t].pc = "writeDir"]
    /\ Interleave(t) /\ RaceFrame /\ UNCHANGED last

\* directory->WriteBack of the directory the call was made in
WriteDir(t) ==
    /\ task[t].pc = "writeDir"
    /\ disk' = DirectoryWriteBack(disk, task[t].dirHdr, task[t].directory)
    /\ task' = [task EXCEPT ![t].pc = "writeMap"]
    /\ Interleave(t) /\ RaceFrame /\ UNCHANGED last

\* a mutant: the free map is not written back
WriteMap_Skipped(t) ==
    /\ task[t].pc = "writeMap"
    /\ Finish(t, TRUE, "ok")
    /\ Interleave(t) /\ RaceFrame /\ UNCHANGED disk

\* freeMap->WriteBack, and the call returns TRUE
WriteMap(t) ==
    /\ task[t].pc = "writeMap"
    /\ disk' = BitMapWriteBack(disk, task[t].freeMap)
    /\ Finish(t, TRUE, "ok")
    /\ Interleave(t) /\ RaceFrame

NextRace ==
    \/ \E t \in Threads, name \in RaceNames, initialSize \in RaceSizes :
          Begin(t, "Create", name, initialSize)
    \/ \E t \in Threads, name \in RaceNames :
          Begin(t, "CreateDirectory", name, DirectoryFileSize)
    \/ \E t \in Threads : FetchDir(t)
    \/ \E t \in Threads : FetchMap(t)
    \/ \E t \in Threads : WriteHdr(t)
    \/ \E t \in Threads : OpenNew(t)
    \/ \E t \in Threads : WriteNew(t)
    \/ \E t \in Threads : WriteDir(t)
    \/ \E t \in Threads : WriteMap(t)

SpecRace == Init /\ [][NextRace]_vars

\* ------------------------------------------------------- views of the state
\* the persisted free map
FreeMap == BitMapFetchFrom(disk)

\* the directory stored at header sector s, as the operations load it; one
\* that cannot be loaded counts as empty here
DirectoryOn(d, s) ==
    IF CanLoadCurrent(d, s) THEN DirectoryFetchFrom(d, FileHeaderFetchFrom(d, s))
    ELSE NewDirectory
DirectoryAt(s) == DirectoryOn(disk, s)

ActiveEntries(t) == {t[i] : i \in {j \in Slots : t[j].inUse}}
ActiveNames(t) == {e.name : e \in ActiveEntries(t)}
Reserved == {".", ".."}

\* the directories reachable from the root through entries of type DIR
RECURSIVE ReachFrom(_, _)
ReachFrom(S, n) ==
    IF n = 0 THEN S
    ELSE ReachFrom(S \cup {e.sector : e \in UNION {{x \in ActiveEntries(DirectoryAt(p)) :
                                          x.type = DIR_TYPE /\ x.name \notin Reserved} : p \in S}},
                   n - 1)
LiveDirectories == ReachFrom({DirectorySector}, NumSectors)

\* the sectors of the file or directory whose header is at sector s
SectorsOf(s) ==
    IF IsHdr(disk, s) THEN {s} \cup SeqRange(disk[s].dataSectors) ELSE {s}

\* the live files and directories: the two boot files and every named entry
\* of a live directory
LiveObjects ==
    {[dir |-> -1, name |-> "freeMapFile", hdr |-> FreeMapSector],
     [dir |-> -1, name |-> "directoryFile", hdr |-> DirectorySector]}
    \cup UNION {{[dir |-> p, name |-> e.name, hdr |-> e.sector] :
                    e \in {x \in ActiveEntries(DirectoryAt(p)) : x.name \notin Reserved}} :
                p \in LiveDirectories}

\* ------------------------------------------------------------------ claims

\* C1: no sector is at once a header or data sector of two different live
\* files or directories, the free map file and the root directory file included.
C1_NoSectorShared ==
    \A o1 \in LiveObjects, o2 \in LiveObjects :
        o1 # o2 => SectorsOf(o1.hdr) \cap SectorsOf(o2.hdr) = {}

\* C10: once formatted, the free map bits of sector 0 and sector 1 are set in
\* every reachable state.
C10_BootSectorsMarked ==
    FreeMapSector \in FreeMap /\ DirectorySector \in FreeMap

\* C3: a Create or CreateDirectory that returns failure performs no device
\* write: the whole disk (free map, directories, headers) is as before the call.
C3_FailedCreateWritesNothing ==
    [][(last'.op \in {"Create", "CreateDirectory"} /\ last'.ret = FALSE) => disk' = disk]_vars

\* C7: Open of a name that is no active entry of the current directory returns
\* the invalid handle and leaves every slot of the open files table as it was.
C7_OpenMissing ==
    [][\A name \in Names :
         (last'.op = "Open" /\ name \notin ActiveNames(DirectoryAt(cwd)) /\ Open(name))
            => (last'.ret = INVALID_FILE_HANDLE /\ openFilesTable' = openFilesTable)]_vars

\* a Create or CreateDirectory has just failed for want of data sectors
C3_Witness ==
    last.op \in {"Create", "CreateDirectory"} /\ last.ret = FALSE /\ last.why = "nospace"

\* an Open has just failed on a missing name while a file is open and a slot is free
C7_Witness ==
    /\ last.op = "Open" /\ last.why = "missing"
    /\ \E h \in Handles : openFilesTable[h].inUse
    /\ \E h \in Handles : ~openFilesTable[h].inUse

InUseSlots(tbl) == {h \in Handles : tbl[h].inUse}

\* C6: at most one slot in use references a given sector; an Open whose name
\* resolves to a sector that a slot in use references returns that slot's
\* handle and leaves the number of slots in use and that slot's cursor unchanged.
C6_OneSlotPerSector ==
    /\ [](\A h1 \in Handles, h2 \in Handles :
            (openFilesTable[h1].inUse /\ openFilesTable[h2].inUse
             /\ openFilesTable[h1].sector = openFilesTable[h2].sector) => h1 = h2)
    /\ [][\A name \in Names :
            LET sector == DirectoryFind(DirectoryAt(cwd), name)
            IN (/\ last'.op = "Open"
                /\ \E h \in InUseSlots(openFilesTable) : openFilesTable[h].sector = sector
                /\ Open(name))
               => /\ last'.ret \in InUseSlots(openFilesTable)
                  /\ openFilesTable[last'.ret].sector = sector
                  /\ Cardinality(InUseSlots(openFilesTable')) =
                        Cardinality(InUseSlots(openFilesTable))
                  /\ openFilesTable'[last'.ret].currentPosition =
                        openFilesTable[last'.ret].currentPosition
                  /\ openFilesTable'[last'.ret].openFile.seekPosition =
                        openFilesTable[last'.ret].openFile.seekPosition]_vars

\* an Open has just returned the handle of a slot that was already in use and
\* whose cursor had moved
C6_Witness ==
    /\ last.op = "Open" /\ last.why = "again"
    /\ openFilesTable[last.ret].currentPosition > 0
    /\ openFilesTable[last.ret].openFile.seekPosition > 0

\* C2: after a Create(name, size) that succeeds while the open files table has
\* a free slot, Open(name) in the same directory returns a valid handle, a
\* full Read through it returns exactly size bytes, and once size bytes are
\* written and the file is opened anew, a full Read returns those bytes.
C2_CreateOpenRead ==
    [][\A name \in Names, size \in Sizes :
         (/\ last'.op = "Create" /\ last'.ret = TRUE
          /\ FindFreeSlot(openFilesTable) # INVALID_FILE_HANDLE
          /\ Create(name, size)) =>
            LET o == OpenOp(disk', cwd', openFilesTable', name)
                r == ReadOp(disk', o.table, o.ret, << >>, size)
                w == WriteOp(disk', o.table, o.ret, Buffer(1, size), size)
                o2 == OpenOp(w.disk, cwd', CloseOp(w.table, o.ret), name)
                r2 == ReadOp(w.disk, o2.table, o2.ret, << >>, size)
            IN o.def =>
                 /\ IsValidHandle(o.table, o.ret)
                 /\ r.ret = size
                 /\ o2.def => (r2.ret = size /\ r2.into = Buffer(1, size))]_vars

\* the names in use of a directory table are distinct
UniqueNames(t) ==
    \A i \in Slots, j \in Slots : (t[i].inUse /\ t[j].inUse /\ t[i].name = t[j].name) => i = j

\* C4: names are unique within every directory; Create and CreateDirectory
\* fail on a name that is an active entry of the current directory; after a
\* Remove(name) that succeeds no Create of that name is refused as existing,
\* and Create(name, 0) succeeds.
C4_UniqueNames ==
    /\ [](\A s \in Sectors : disk[s].kind = "dir" => UniqueNames(disk[s].table))
    /\ [][\A name \in Names :
            /\ \A size \in Sizes :
                  (/\ last'.op = "Create"
                   /\ name \in ActiveNames(DirectoryAt(cwd))
                   /\ Create(name, size))
                     => last'.ret = FALSE
            /\ (/\ last'.op = "CreateDirectory"
                /\ name \in ActiveNames(DirectoryAt(cwd))
                /\ CreateDirectory(name))
                  => last'.ret = FALSE
            /\ (last'.op = "Remove" /\ last'.ret = TRUE /\ Remove(name))
                  => /\ \A size \in Sizes :
                           CreateOp(disk', cwd', name, size).def
                              => CreateOp(disk', cwd', name, size).why # "exists"
                     /\ CreateOp(disk', cwd', name, 0).def
                           => CreateOp(disk', cwd', name, 0).ret = TRUE]_vars

\* a Create or CreateDirectory has just been refused because the name exists,
\* in a directory that holds a name besides "." and ".."
C4_Witness ==
    /\ last.op \in {"Create", "CreateDirectory"} /\ last.why = "exists"
    /\ ActiveNames(DirectoryAt(cwd)) \ Reserved # {}

\* C5: a Create(name, size) that succeeds, followed at once by Remove(name),
\* leaves the persisted free map as it was before the Create.
C5_CreateRemoveRestoresMap ==
    [][\A name \in Names, size \in Sizes :
         (last'.op = "Create" /\ last'.ret = TRUE /\ Create(name, size)) =>
            LET r == RemoveOp(disk', cwd', name)
            IN r.def => (r.ret = TRUE /\ BitMapFetchFrom(r.disk) = BitMapFetchFrom(disk))]_vars

\* C8: a CreateDirectory(name) that succeeds in the directory at sector P makes
\* a directory at a sector S that was free, whose active entries are exactly
\* "." -> S and ".." -> P of type DIR, and adds (name, S, DIR) to directory P.
C8_NewDirectory ==
    [][\A name \in Names :
         (last'.op = "CreateDirectory" /\ last'.ret = TRUE /\ CreateDirectory(name)) =>
            LET S == BitMapFind(BitMapFetchFrom(disk)).sector
            IN /\ S \notin BitMapFetchFrom(disk)
               /\ S \in BitMapFetchFrom(disk')
               /\ ActiveEntries(DirectoryOn(disk', S)) =
                     {[inUse |-> TRUE, name |-> ".", sector |-> S, type |-> DIR_TYPE],
                      [inUse |-> TRUE, name |-> "..", sector |-> cwd, type |-> DIR_TYPE]}
               /\ [inUse |-> TRUE, name |-> name, sector |-> S, type |-> DIR_TYPE]
                     \in ActiveEntries(DirectoryOn(disk', cwd))]_vars

\* C9: once ChangeDirectory(name) has entered a directory from its parent,
\* ChangeDirectory("..") and then ChangeDirectory(name) both succeed and end
\* in that directory again.
C9_UpAndBack ==
    [][\A name \in Names \ Reserved :
         (last'.op = "ChangeDirectory" /\ last'.ret = TRUE /\ ChangeDirectory(name)) =>
            LET up == ChangeDirectoryOp(disk', cwd', "..")
                back == ChangeDirectoryOp(disk', up.cwd, name)
            IN (up.def /\ back.def) =>
                  (up.ret = TRUE /\ back.ret = TRUE /\ back.cwd = cwd')]_vars

\* the entries in use of table t under the name n
EntriesNamed(t, n) == {e \in ActiveEntries(t) : e.name = n}

\* the directory at sector S has one "." entry, to itself, and one ".."
\* entry, to the directory at sector P
SelfAndParent(S, P) ==
    /\ EntriesNamed(DirectoryAt(S), ".") =
          {[inUse |-> TRUE, name |-> ".", sector |-> S, type |-> DIR_TYPE]}
    /\ EntriesNamed(DirectoryAt(S), "..") =
          {[inUse |-> TRUE, name |-> "..", sector |-> P, type |-> DIR_TYPE]}

\* the (parent, child) pairs of live directories: the root under itself, and
\* every DIR entry of a live directory that is not "." or ".."
LiveLinks ==
    {<<DirectorySector, DirectorySector>>} \cup
    UNION {{<<P, e.sector>> : e \in {x \in ActiveEntries(DirectoryAt(P)) :
                                       x.type = DIR_TYPE /\ x.name \notin Reserved}} :
           P \in LiveDirectories}

\* C11: every live directory (the root and every directory made by
\* CreateDirectory and not removed) holds exactly one active "." entry, to its
\* own sector, and exactly one active ".." entry, to its parent's sector; the
\* root's ".." points at the root.
C11_DotAndDotDot ==
    \A l \in LiveLinks : SelfAndParent(l[2], l[1])

\* C20: for every directory at sector P reachable from the root and every
\* active entry (n, S, DIR) of P with n not "." or "..", sector S is marked in
\* the free map and holds the header of a directory whose "." points at S and
\* whose ".." points at P.
C20_ParentChildLinkage ==
    \A P \in LiveDirectories :
        \A e \in ActiveEntries(DirectoryAt(P)) :
            (e.type = DIR_TYPE /\ e.name \notin Reserved) =>
                /\ e.sector \in FreeMap
                /\ CanLoadCurrent(disk, e.sector)
                /\ DirectoryFind(DirectoryAt(e.sector), ".") = e.sector
                /\ DirectoryFind(DirectoryAt(e.sector), "..") = P

\* C12: immediately after the bootstrap with format = TRUE, the root
\* directory's active entries are exactly "." and "..", both pointing at
\* sector 1 with type DIR, the current directory is the root sector, and every
\* slot of the open files table is unused.
C12_AfterBootstrap ==
    last.op = "boot" =>
        /\ ActiveEntries(DirectoryAt(DirectorySector)) =
              {[inUse |-> TRUE, name |-> ".", sector |-> DirectorySector, type |-> DIR_TYPE],
               [inUse |-> TRUE, name |-> "..", sector |-> DirectorySector, type |-> DIR_TYPE]}
        /\ cwd = DirectorySector
        /\ \A h \in Handles : ~openFilesTable[h].inUse

\* the file system has just been formatted and no call was made yet
C12_Witness ==
    last.op = "boot" /\ nops = 0 /\ disk = FormattedDisk

\* C13: Read, Write, ReadAt, WriteAt and Close on a handle that is out of
\* range, never opened or already closed are rejected: the I/O calls return 0
\* (also for a null buffer with a valid handle) and neither the open files
\* table nor the disk changes; a Close of such a handle frees no slot.
C13_InvalidHandleRejected ==
    [][/\ (last'.op \in {"Read", "Write", "ReadAt", "WriteAt"}
           /\ last'.why \in {"invalid", "null"})
          => (last'.ret = 0 /\ openFilesTable' = openFilesTable /\ disk' = disk)
       /\ \A file \in HandleArgs :
             (last'.op = "Close" /\ ~IsValidHandle(openFilesTable, file) /\ Close(file))
                => openFilesTable' = openFilesTable]_vars

\* a Close has just been rejected while a file is open
C13_Witness ==
    /\ last.op = "Close" /\ last.why = "invalid"
    /\ \E h \in Handles : openFilesTable[h].inUse

\* C14: Create, CreateDirectory, Open, Remove and ChangeDirectory called with
\* the empty name, and Create called with a negative size, return failure
\* (FALSE or the invalid handle) and change neither the disk, the open files
\* table nor the current directory.
C14_BadArgumentsRejected ==
    [][/\ (\/ (last'.op = "Create" /\ \E name \in ArgNames, size \in ArgSizes :
                                          ((name = "" \/ size < 0) /\ Create(name, size)))
           \/ (last'.op = "CreateDirectory" /\ CreateDirectory(""))
           \/ (last'.op = "Remove" /\ Remove(""))
           \/ (last'.op = "ChangeDirectory" /\ ChangeDirectory("")))
          => (last'.ret = FALSE /\ UNCHANGED <<disk, openFilesTable, cwd>>)
       /\ (last'.op = "Open" /\ Open(""))
          => (last'.ret = INVALID_FILE_HANDLE /\ UNCHANGED <<disk, openFilesTable, cwd>>)]_vars

\* C15: the current directory changes only through a ChangeDirectory(name)
\* that succeeds, and then becomes the sector of the entry name, an active
\* entry of type DIR of the current directory; ChangeDirectory of an absent
\* name or of a FILE entry fails and leaves it unchanged; ChangeDirectory(".")
\* leaves it unchanged and ChangeDirectory("..") at the root leaves it at the
\* root; no other call changes it.
C15_CurrentDirectory ==
    [][/\ cwd' # cwd => (last'.op = "ChangeDirectory" /\ last'.ret = TRUE)
       /\ \A name \in Names :
            (last'.op = "ChangeDirectory" /\ ChangeDirectory(name)) =>
               LET named == EntriesNamed(DirectoryAt(cwd), name)
               IN /\ last'.ret = TRUE =>
                        \E e \in named : e.type = DIR_TYPE /\ cwd' = e.sector
                  /\ (\A e \in named : e.type = FILE_TYPE) =>
                        (last'.ret = FALSE /\ cwd' = cwd)
                  /\ name = "." => cwd' = cwd
                  /\ (name = ".." /\ cwd = DirectorySector) => cwd' = DirectorySector]_vars

\* C16: ReadAt and WriteAt on a valid handle leave the recorded cursor of
\* that handle, and of every other handle, unchanged, whatever number of bytes
\* they transfer.
C16_PositionalLeavesCursor ==
    [][(last'.op \in {"ReadAt", "WriteAt"} /\ last'.why = "ok") =>
          \A h \in Handles :
             openFilesTable'[h].currentPosition = openFilesTable[h].currentPosition]_vars

\* C17: the recorded cursor of a handle in use equals the offset at which its
\* next sequential transfer takes place, and a sequential Read or Write
\* advances the cursor of its handle by exactly the number of bytes it
\* transferred.
C17_CursorIsNextOffset ==
    /\ [](\A h \in InUseSlots(openFilesTable) :
            openFilesTable[h].currentPosition = openFilesTable[h].openFile.seekPosition)
    /\ [][(last'.op \in {"Read", "Write"} /\ last'.why = "ok") =>
            \E h \in Handles :
               /\ openFilesTable'[h].currentPosition =
                     openFilesTable[h].currentPosition + last'.ret
               /\ \A g \in Handles \ {h} : openFilesTable'[g] = openFilesTable[g]]_vars

\* C18: an Open whose name resolves to a sector that no slot in use
\* references takes the lowest unused slot, records the sector, the name and
\* cursor 0 there and returns its index, which lies in 0 .. MAX_OPEN_FILES - 1;
\* when every slot is in use it returns the invalid handle and leaves the
\* table unchanged; a Close of a valid handle leaves its slot unused, for a
\* later Open to take.
C18_OpenTakesLowestSlot ==
    [][/\ \A name \in Names :
            LET sector == DirectoryFind(DirectoryAt(cwd), name)
                unused == Handles \ InUseSlots(openFilesTable)
            IN (/\ last'.op = "Open"
                /\ sector # -1
                /\ \A h \in InUseSlots(openFilesTable) : openFilesTable[h].sector # sector
                /\ Open(name))
               => IF unused = {}
                  THEN last'.ret = INVALID_FILE_HANDLE /\ openFilesTable' = openFilesTable
                  ELSE /\ last'.ret \in unused
                       /\ \A h \in unused : last'.ret <= h
                       /\ openFilesTable'[last'.ret].inUse
                       /\ openFilesTable'[last'.ret].sector = sector
                       /\ openFilesTable'[last'.ret].filename = name
                       /\ openFilesTable'[last'.ret].currentPosition = 0
                       /\ openFilesTable'[last'.ret].openFile.seekPosition = 0
                       /\ \A h \in Handles \ {last'.ret} :
                             openFilesTable'[h] = openFilesTable[h]
       /\ \A file \in HandleArgs :
            (last'.op = "Close" /\ last'.why = "ok" /\ Close(file)
             /\ IsValidHandle(openFilesTable, file))
               => (openFilesTable'[file] = ClosedEntry
                   /\ FindFreeSlot(openFilesTable') <= file)]_vars

\* an Open of a name whose sector no slot references has just been refused
\* because every slot is in use
C18_Witness ==
    /\ last.op = "Open" /\ last.why = "full" /\ last.ret = INVALID_FILE_HANDLE
    /\ InUseSlots(openFilesTable) = Handles

\* C19: Remove(name) succeeds exactly when name is an active entry of the
\* current directory, whether or not the target is open or is a directory
\* that holds entries; on an absent name it fails and changes nothing; either
\* way the open files table is as before, so a valid handle stays valid.
C19_RemoveByNameOnly ==
    [][\A name \in Names :
         (last'.op = "Remove" /\ Remove(name)) =>
            /\ last'.ret = (name \in ActiveNames(DirectoryAt(cwd)))
            /\ name \notin ActiveNames(DirectoryAt(cwd)) => disk' = disk
            /\ openFilesTable' = openFilesTable
            /\ cwd' = cwd
            /\ \A h \in HandleArgs :
                  IsValidHandle(openFilesTable, h) => IsValidHandle(openFilesTable', h)]_vars

\* a Remove has just succeeded on a file that is open: a slot in use still
\* references its header sector, which the free map no longer marks
C19_Witness ==
    /\ last.op = "Remove" /\ last.ret = TRUE
    /\ \E h \in InUseSlots(openFilesTable) :
          /\ IsValidHandle(openFilesTable, h)
          /\ openFilesTable[h].sector \notin FreeMap
          /\ openFilesTable[h].filename \notin Reserved
          /\ openFilesTable[h].filename \notin ActiveNames(DirectoryAt(cwd))

\* the calls of the two threads that returned TRUE
Succeeded == {t \in Threads : task[t].pc = "done" /\ task[t].ret}

\* what call t was given: its header sector and its data sectors
Given(t) == {task[t].sector} \cup SeqRange(task[t].hdr.dataSectors)

\* the calls that returned TRUE were given sectors of their own, the free map
\* marks them all, and the entry of each is in the directory
RaceSound ==
    /\ \A t \in Succeeded :
          /\ Given(t) \subseteq FreeMap
          /\ [inUse |-> TRUE, name |-> task[t].name, sector |-> task[t].sector,
              type |-> IF task[t].op = "Create" THEN FILE_TYPE ELSE DIR_TYPE]
                \in ActiveEntries(DirectoryAt(cwd))
    /\ \A t \in Succeeded, u \in Succeeded : t # u => Given(t) \cap Given(u) = {}

\* C21: when the Create and CreateDirectory calls of two threads run one at a
\* time to completion, the calls that return success have sectors of their
\* own, all marked in the free map, and their directory entries are kept; the
\* state in which both return success on the same sector needs their steps to
\* interleave.
C21_SoundUnlessInterleaved ==
    (~overlapped /\ \A t \in Threads : task[t].pc \in {"idle", "done"}) => RaceSound

\* two calls whose steps interleaved have both returned success and were
\* given the same header sector
C21_Witness ==
    /\ overlapped
    /\ Succeeded = Threads
    /\ task[1].sector = task[2].sector

\* C22: no sector is leaked: every sector marked in the persisted free map is
\* sector 0, sector 1, a data sector of the free map file or of the root
\* directory file, or the header or a data sector of a file or directory
\* reachable from the root through active directory entries.
C22_NoSectorLeaked ==
    FreeMap \subseteq
        ({FreeMapSector, DirectorySector} \cup UNION {SectorsOf(o.hdr) : o \in LiveObjects})

\* C23: every in-use entry of the open files table describes the file that
\* currently owns its backing sector: the sector is marked in the free map and
\* an active entry of a live directory gives that sector the entry's recorded
\* name (so a file created on the sector of a removed open file is opened
\* under its own name, not under the removed one's entry).
C23_EntriesOwnTheirSector ==
    \A h \in InUseSlots(openFilesTable) :
        /\ openFilesTable[h].sector \in FreeMap
        /\ \E p \in LiveDirectories : \E e \in ActiveEntries(DirectoryAt(p)) :
              e.name = openFilesTable[h].filename /\ e.sector = openFilesTable[h].sector

\* C24: the current directory sector always identifies a live directory: the
\* sector is marked in the free map, holds a directory header whose table can
\* be loaded, and the directory is reachable from the root.
C24_CurrentDirectoryLive ==
    /\ cwd \in FreeMap
    /\ CanLoadCurrent(disk, cwd)
    /\ cwd \in LiveDirectories

\* the calls that work on handles
HandleCalls == {"Open", "Write", "WriteAt", "Read", "ReadAt", "Close", "CloseAll"}

\* C25: directory contents change only through Create, CreateDirectory and
\* Remove: a call of Open, Write, WriteAt, Read, ReadAt, Close or CloseAll
\* leaves every live directory loadable and with the same active entries.
C25_HandleCallsKeepDirectories ==
    [][last'.op \in HandleCalls =>
          \A p \in LiveDirectories :
              CanLoadCurrent(disk, p) =>
                  /\ CanLoadCurrent(disk', p)
                  /\ ActiveEntries(DirectoryOn(disk', p)) = ActiveEntries(DirectoryAt(p))]_vars
====
